---- MODULE Spec2Model ----
(***************************************************************************)
(* Auto-fit text layout of image-placeholder (src/src/index.js).           *)
(*                                                                         *)
(* A JavaScript string is modelled as a sequence of one-character strings, *)
(* indexed from 1 (JavaScript indexes from 0; the string helpers below     *)
(* take and return JavaScript's 0-based indices).                          *)
(*                                                                         *)
(* Specifications:                                                         *)
(*   Spec      the GET /image/:text handler, one request                   *)
(*   SpecWrap  splitLines (and the identical inline loop of GET /review)   *)
(*             applied to a text, then applied again to its own output     *)
(*   SpecFont  computeFontSize run with two caps on the same text          *)
(*   SpecDraw  drawWord applied to one word                                *)
(***************************************************************************)
EXTENDS Integers, Sequences, FiniteSets

VARIABLES
    text,         \* the request's text (req.params.text / the review's text)
    measure,      \* the Measurement Provider: pixel sizes of the font at 1px
    maxFontSize,  \* configuration MAX_FONT_SIZE
    pc,           \* position of the handler / of the operation under study
    dichotomy,    \* the wrap-width search state {min, max, maxFontSize, lines}
    wL,           \* splitLines: parameter maxLineLength
    segs,         \* splitLines: segments of text.split('\n') not yet visited
    line,         \* splitLines: the forEach callback's `line`
    lines,        \* splitLines: the array `lines`
    forced,       \* history: forced[i] iff lines[i] was pushed with pos = maxLineLength
    pass,         \* SpecWrap: 1 = wrapping text, 2 = wrapping the joined output
    first,        \* SpecWrap: the lines returned by the first pass
    response,     \* what the handler sent: "none" or "image/png"
    drawn,        \* the texts handed to the drawing surface, in order
    cap2,         \* SpecFont: the second cap
    res1,         \* SpecFont: result with cap maxFontSize
    res2,         \* SpecFont: result with cap cap2
    word,         \* SpecDraw: the word
    x0,           \* SpecDraw: the x position
    draws,        \* SpecDraw: the sub-draws [text, x] issued, in order
    advance       \* SpecDraw: drawWord's return value

vars == <<text, measure, maxFontSize, pc, dichotomy, wL, segs, line, lines, forced,
          pass, first, response, drawn, cap2, res1, res2, word, x0, draws, advance>>

wrapVars == <<wL, segs, line, lines, forced>>
fontVars == <<cap2, res1, res2>>
drawVars == <<word, x0, draws, advance>>

-----------------------------------------------------------------------------
(* Bounds of the model *)

MaxTextLen == 5
MaxImageTextLen == 4
MaxLineLen == 3
MaxFontCap == 6
MaxWordLen == 4
MaxX == 2

\* The array `lines` cannot grow without limit (the heap is finite); no run
\* of the wrap loop with maxLineLength >= 1 comes near this many lines.
MaxEmitted == MaxTextLen + 3

-----------------------------------------------------------------------------
(* Characters and texts *)

SP == " "
NL == "\n"
COMMA == ","
BANG == "!"

Chars == {"a", "b", SP, NL}

TextsUpTo(n) == UNION {[1..k -> Chars] : k \in 0..n}

WordChars == {"a", "b", BANG}

Words == UNION {[1..k -> WordChars] : k \in 0..MaxWordLen}

-----------------------------------------------------------------------------
(* JavaScript string and array built-ins *)

Min(a, b) == IF a < b THEN a ELSE b

Max(a, b) == IF a > b THEN a ELSE b

\* s.substring(from, to) for 0 <= from
Substring(s, from, to) == SubSeq(s, from + 1, Min(to, Len(s)))

\* s.substring(from)
SubstringFrom(s, from) == SubSeq(s, from + 1, Len(s))

\* s.lastIndexOf(c): 0-based, -1 when absent
LastIndexOf(s, c) ==
    LET hits == {i \in 1..Len(s) : s[i] = c}
    IN  IF hits = {} THEN -1 ELSE (CHOOSE i \in hits : \A j \in hits : j <= i) - 1

\* s.indexOf(c, from): 0-based, -1 when absent
IndexOf(s, c, from) ==
    LET hits == {i \in (from + 1)..Len(s) : s[i] = c}
    IN  IF hits = {} THEN -1 ELSE (CHOOSE i \in hits : \A j \in hits : i <= j) - 1

\* s.split(sep): always at least one piece
RECURSIVE Split(_, _)
Split(s, sep) ==
    LET i == IndexOf(s, sep, 0)
    IN  IF i = -1 THEN <<s>>
        ELSE <<Substring(s, 0, i)>> \o Split(SubstringFrom(s, i + 1), sep)

\* arr.join(sep)
RECURSIVE Join(_, _)
Join(arr, sep) ==
    IF Len(arr) = 0 THEN <<>>
    ELSE IF Len(arr) = 1 THEN arr[1]
    ELSE arr[1] \o <<sep>> \o Join(Tail(arr), sep)

\* String(arr): an array handed to an API that expects a string
ArrayToString(arr) == Join(arr, COMMA)

-----------------------------------------------------------------------------
(* splitLines, and the same loop inline in GET /review *)

\* the while condition
ExceedsGuardMut(l, L) == Len(l) >= L

ExceedsMax(l, L) == Len(l) > L

\* pos: the last space within the first L characters, else L
LastSpace(l, L) == LastIndexOf(Substring(l, 0, L), SP)

BreakPosMut(l, L) == IF LastSpace(l, L) <= 0 THEN L + 1 ELSE LastSpace(l, L)

BreakPos(l, L) == IF LastSpace(l, L) <= 0 THEN L ELSE LastSpace(l, L)

\* i: where the rest of the line starts
NextStart(l, pos, L) ==
    LET i == IndexOf(l, SP, pos) + 1
    IN  IF i < pos \/ i > pos + L THEN pos ELSE i

\* entry of splitLines(t, L): lines = [], forEach over t.split('\n')
WrapCall(t, L) ==
    /\ wL' = L
    /\ line' = Head(Split(t, NL))
    /\ segs' = Tail(Split(t, NL))
    /\ lines' = <<>>
    /\ forced' = <<>>

\* one iteration of the while loop
WrapBreak ==
    /\ pc = "wrap"
    /\ ExceedsMax(line, wL)
    /\ Len(lines) < MaxEmitted
    /\ LET pos == BreakPos(line, wL)
       IN  /\ lines' = Append(lines, Substring(line, 0, pos))
           /\ forced' = Append(forced, LastSpace(line, wL) <= 0)
           /\ line' = SubstringFrom(line, NextStart(line, pos, wL))
    /\ UNCHANGED <<wL, segs, pc>>
    /\ UNCHANGED <<text, measure, maxFontSize, dichotomy, pass, first, response, drawn>>
    /\ UNCHANGED <<fontVars, drawVars>>

\* the loop is left: lines.push(line); next segment, or return lines
WrapEmitRest ==
    /\ pc = "wrap"
    /\ ~ExceedsMax(line, wL)
    /\ lines' = Append(lines, line)
    /\ forced' = Append(forced, FALSE)
    /\ IF segs = <<>>
       THEN /\ pc' = "wrapped"
            /\ UNCHANGED <<line, segs>>
       ELSE /\ pc' = "wrap"
            /\ line' = Head(segs)
            /\ segs' = Tail(segs)
    /\ UNCHANGED wL
    /\ UNCHANGED <<text, measure, maxFontSize, dichotomy, pass, first, response, drawn>>
    /\ UNCHANGED <<fontVars, drawVars>>

-----------------------------------------------------------------------------
(* Canvas and Measurement Provider (context.measureText)                   *)
(*                                                                         *)
(* The provider is external.  It is modelled by a family of fonts, each    *)
(* deterministic and monotonic in the font size: at size s a glyph is      *)
(* s * cw pixels wide (a space half of that), a line s * lh pixels high;   *)
(* a block is as wide as its widest line, its ascent is that of the first  *)
(* line and its descent covers the lines below.                            *)

canvasWidth == 1275

\* canvasWidth / ratio with ratio = 1275 / 362
canvasHeight == 362

CharWidths == {60, 150, 400}

LineHeights == {50, 120, 300}

Providers == [cw : CharWidths, lh : LineHeights]

CharWidth(c) == IF c = SP THEN measure.cw \div 2 ELSE measure.cw

RECURSIVE LineWidth(_)
LineWidth(l) == IF l = <<>> THEN 0 ELSE CharWidth(Head(l)) + LineWidth(Tail(l))

RECURSIVE MaxLineWidth(_)
MaxLineWidth(ls) ==
    IF ls = <<>> THEN 0 ELSE Max(LineWidth(Head(ls)), MaxLineWidth(Tail(ls)))

\* measureText(str).width with the font at `size` px
TextWidth(str, size) == size * MaxLineWidth(Split(str, NL))

\* measureText(str).actualBoundingBoxAscent
Ascent(str, size) == size * measure.lh

\* measureText(str).actualBoundingBoxDescent
Descent(str, size) == size * measure.lh * (Len(Split(str, NL)) - 1)

\* the overflow test of the font-size loops
Overflows(str, size) ==
    \/ TextWidth(str, size) > canvasWidth
    \/ Descent(str, size) + Ascent(str, size) > canvasHeight

-----------------------------------------------------------------------------
(* computeFontSize *)

\* the do-while condition
ContinueSearchMut(min, max) == max - min < 1

ContinueSearch(min, max) == max - min > 1

\* the do-while loop on {min, max}; returns dichotomy.min
RECURSIVE FontDichotomy(_, _, _)
FontDichotomy(str, min, max) ==
    LET newFontSize == (min + max) \div 2
        over == Overflows(str, newFontSize)
        nmin == IF over THEN min ELSE newFontSize
        nmax == IF over THEN newFontSize ELSE max
    IN  IF ContinueSearch(nmin, nmax) THEN FontDichotomy(str, nmin, nmax) ELSE nmin

computeFontSize(str) == FontDichotomy(str, 0, maxFontSize)

-----------------------------------------------------------------------------
(* computeLineHeight, getLongestLineLength, drawWord *)

\* ratios[n] || 0.7 / n ** 1.5 + 1, in thousandths (the formula rounded down)
MultiplierMilli(n) ==
    CASE n = 2 -> 1275
      [] n = 3 -> 1167
      [] n = 4 -> 1120
      [] n = 5 -> 1095
      [] OTHER -> 1000 + (CHOOSE k \in 0..(700 \div n) :
                            /\ k * k * n * n * n <= 490000
                            /\ (k + 1) * (k + 1) * n * n * n > 490000)

\* computeLineHeight(lines, textDetails), in thousandths of a pixel
LineHeightMilli(ls, ascent, descent) ==
    ((descent + ascent) * MultiplierMilli(Len(ls))) \div Len(ls)

RECURSIVE getLongestLineLength(_)
getLongestLineLength(ls) ==
    IF ls = <<>> THEN 0 ELSE Max(Len(Head(ls)), getLongestLineLength(Tail(ls)))

\* drawWord(context, word, x, y, fontSize): the sub-draws it issues, in order,
\* and its return value.  The fill colour (getColor) and y play no part in
\* where and in which order the glyphs are drawn and are left out.
RECURSIVE drawWord(_, _, _)
drawWord(w, x, fontSize) ==
    IF Len(w) > 1 /\ w[Len(w)] = BANG
    THEN LET p == drawWord(Substring(w, 0, Len(w) - 1), x, fontSize)
             q == drawWord(<<BANG>>, x + p.advance, fontSize)
         IN  [draws |-> p.draws \o q.draws, advance |-> p.advance + q.advance]
    ELSE [draws |-> <<[text |-> w, x |-> x]>>,
          advance |-> TextWidth(w \o <<SP>>, fontSize)]

\* line.split(' ').forEach((word) => { x += drawWord(...) })
RECURSIVE DrawWords(_, _, _)
DrawWords(ws, x, fontSize) ==
    IF ws = <<>> THEN <<>>
    ELSE LET d == drawWord(Head(ws), x, fontSize)
         IN  d.draws \o DrawWords(Tail(ws), x + d.advance, fontSize)

\* lines.forEach: each line starts at (canvasWidth - width) / 2, here in whole pixels
RECURSIVE DrawLines(_, _)
DrawLines(ls, fontSize) ==
    IF ls = <<>> THEN <<>>
    ELSE DrawWords(Split(Head(ls), SP),
                   (canvasWidth - TextWidth(Head(ls), fontSize)) \div 2, fontSize)
         \o DrawLines(Tail(ls), fontSize)

-----------------------------------------------------------------------------
(* SpecWrap: splitLines(text, L), then splitLines of the joined result *)

\* the provider and the configuration play no part in wrapping
IdleMeasure == [cw |-> 0, lh |-> 0]

IdleDichotomy == [min |-> 0, max |-> 0, maxFontSize |-> 0, lines |-> <<>>]

InitIdleFont == cap2 = 0 /\ res1 = 0 /\ res2 = 0

InitIdleDraw == word = <<>> /\ x0 = 0 /\ draws = <<>> /\ advance = 0

InitIdleWrap == wL = 0 /\ segs = <<>> /\ line = <<>> /\ lines = <<>> /\ forced = <<>>

InitWrap ==
    /\ text \in TextsUpTo(MaxTextLen)
    /\ wL \in 1..MaxLineLen
    /\ pc = "call"
    /\ pass = 1
    /\ first = <<>>
    /\ segs = <<>> /\ line = <<>> /\ lines = <<>> /\ forced = <<>>
    /\ measure = IdleMeasure
    /\ maxFontSize = 0
    /\ dichotomy = IdleDichotomy
    /\ response = "none"
    /\ drawn = <<>>
    /\ InitIdleFont
    /\ InitIdleDraw

\* splitLines(text, maxLineLength)
SplitLinesCall ==
    /\ pc = "call"
    /\ WrapCall(text, wL)
    /\ pc' = "wrap"
    /\ UNCHANGED <<text, measure, maxFontSize, dichotomy, pass, first, response, drawn>>
    /\ UNCHANGED <<fontVars, drawVars>>

\* splitLines(lines.join('\n'), maxLineLength)
Rewrap ==
    /\ pc = "wrapped"
    /\ pass = 1
    /\ first' = lines
    /\ pass' = 2
    /\ WrapCall(Join(lines, NL), wL)
    /\ pc' = "wrap"
    /\ UNCHANGED <<text, measure, maxFontSize, dichotomy, response, drawn>>
    /\ UNCHANGED <<fontVars, drawVars>>

WrapReturn ==
    /\ pc = "wrapped"
    /\ pass = 2
    /\ pc' = "done"
    /\ UNCHANGED <<text, measure, maxFontSize, dichotomy, pass, first, response, drawn>>
    /\ UNCHANGED <<wrapVars, fontVars, drawVars>>

NextWrap == SplitLinesCall \/ WrapBreak \/ WrapEmitRest \/ Rewrap \/ WrapReturn

SpecWrap == InitWrap /\ [][NextWrap]_vars

-----------------------------------------------------------------------------
(* Properties of the line wrapper, checked under SpecWrap *)

RECURSIVE Concat(_)
Concat(arr) == IF arr = <<>> THEN <<>> ELSE Head(arr) \o Concat(Tail(arr))

IsInk(c) == c # SP /\ c # NL

Ink(s) == SelectSeq(s, IsInk)

\* C4: for maxLineLength L >= 1 every line the wrapper has emitted is at most
\* L characters long, and a line emitted by a forced hard break (no space at
\* an index > 0 within the first L characters) is exactly L characters long.
C4_LineLengthBound ==
    \A i \in 1..Len(lines) :
        /\ Len(lines[i]) <= wL
        /\ forced[i] => Len(lines[i]) = wL

\* a finished first pass that made a forced hard break and a break at a space
C4_Witness ==
    /\ pc = "wrapped"
    /\ pass = 1
    /\ \E i \in 1..Len(lines) : forced[i]
    /\ \E i \in 1..Len(lines) : ~forced[i] /\ Len(lines[i]) < wL /\ i < Len(lines)

\* C5: wrapping is idempotent: splitLines(splitLines(text, L).join('\n'), L)
\* is the same sequence of lines as splitLines(text, L).
C5_WrapIdempotent == pc = "done" => lines = first

\* both passes are over and the first pass broke at least one line
C5_Witness ==
    /\ pc = "done"
    /\ Len(first) > Len(Split(text, NL))
    /\ \E i \in 1..Len(first) : Len(first[i]) = wL

\* C10: the wrapper loses no text: the emitted lines, concatenated and with
\* spaces removed, are the input with spaces and newlines removed.
C10_NoTextLost == (pc = "wrapped" /\ pass = 1) => Ink(Concat(lines)) = Ink(text)

-----------------------------------------------------------------------------
(* SpecFont: the font-size solver with caps maxFontSize and cap2 *)

InitFont ==
    /\ text \in TextsUpTo(MaxImageTextLen)
    /\ measure \in Providers
    /\ maxFontSize \in 1..MaxFontCap
    /\ cap2 \in 1..MaxFontCap
    /\ res1 = 0
    /\ res2 = 0
    /\ pc = "call"
    /\ pass = 0
    /\ first = <<>>
    /\ dichotomy = IdleDichotomy
    /\ response = "none"
    /\ drawn = <<>>
    /\ InitIdleWrap
    /\ InitIdleDraw

FontSolve ==
    /\ pc = "call"
    /\ res1' = computeFontSize(text)
    /\ res2' = FontDichotomy(text, 0, cap2)
    /\ pc' = "done"
    /\ UNCHANGED <<text, measure, maxFontSize, dichotomy, pass, first, response, drawn>>
    /\ UNCHANGED <<cap2, wrapVars, drawVars>>

NextFont == FontSolve

SpecFont == InitFont /\ [][NextFont]_vars

\* the largest size in [0, maxFontSize] at which the text fits
LargestFit ==
    CHOOSE s \in 0..maxFontSize :
        /\ ~Overflows(text, s)
        /\ \A t \in 0..maxFontSize : ~Overflows(text, t) => t <= s

\* C2: the solver returns the largest integer in [0, maxFontSize], both ends
\* included, at which the text fits; maxFontSize itself when the text fits there.
C2_LargestFittingSize == pc = "done" => res1 = LargestFit

\* C6: the solver is monotone in its cap: with caps c1 <= c2 the result for
\* c1 is at most the result for c2.
C6_MonotoneInCap == (pc = "done" /\ maxFontSize <= cap2) => res1 <= res2

\* two different caps gave two different positive sizes
C6_Witness ==
    /\ pc = "done"
    /\ maxFontSize < cap2
    /\ 0 < res1
    /\ res1 < res2

-----------------------------------------------------------------------------
(* Spec: GET /image/:text *)

Init ==
    /\ text \in TextsUpTo(MaxImageTextLen)
    /\ measure \in Providers
    /\ maxFontSize \in 1..MaxFontCap
    /\ pc = "start"
    /\ dichotomy = IdleDichotomy
    /\ pass = 0
    /\ first = <<>>
    /\ response = "none"
    /\ drawn = <<>>
    /\ InitIdleWrap
    /\ InitIdleFont
    /\ InitIdleDraw

\* lines = text.split('\n'); the dichotomy is seeded with computeFontSize(lines):
\* the array itself is passed, which measureText converts to a string
ImageStart ==
    /\ pc = "start"
    /\ LET ls == Split(text, NL)
       IN  dichotomy' = [min |-> 0,
                         max |-> getLongestLineLength(ls),
                         maxFontSize |-> computeFontSize(ArrayToString(ls)),
                         lines |-> ls]
    /\ pc' = "loop"
    /\ UNCHANGED <<text, measure, maxFontSize, pass, first, response, drawn>>
    /\ UNCHANGED <<wrapVars, fontVars, drawVars>>

\* top of the do-while: newMaxLineLength, then splitLines(text, newMaxLineLength)
IterBegin ==
    /\ pc = "loop"
    /\ WrapCall(text, (dichotomy.min + dichotomy.max) \div 2)
    /\ pc' = "wrap"
    /\ UNCHANGED <<text, measure, maxFontSize, dichotomy, pass, first, response, drawn>>
    /\ UNCHANGED <<fontVars, drawVars>>

\* the headroom test on the adopted candidate, in thousandths of a pixel
Headroom(str, ls, fontSize) ==
    1000 * (canvasHeight - Descent(str, fontSize) + Ascent(str, fontSize))
        > LineHeightMilli(ls, Ascent(str, fontSize), Descent(str, fontSize)) * 2

\* rest of the loop body once splitLines has returned, and the loop test
IterEnd ==
    /\ pc = "wrapped"
    /\ LET str == Join(lines, NL)
           newFontSize == computeFontSize(str)
           d == IF newFontSize > dichotomy.maxFontSize
                THEN IF Headroom(str, lines, newFontSize)
                     THEN [min |-> dichotomy.min, max |-> wL,
                           maxFontSize |-> newFontSize, lines |-> lines]
                     ELSE [min |-> wL, max |-> dichotomy.max,
                           maxFontSize |-> newFontSize, lines |-> lines]
                ELSE [dichotomy EXCEPT !.max = wL]
       IN  /\ dichotomy' = d
           /\ pc' = IF d.max - d.min > 1 THEN "loop" ELSE "render"
    /\ UNCHANGED <<text, measure, maxFontSize, pass, first, response, drawn>>
    /\ UNCHANGED <<wrapVars, fontVars, drawVars>>

\* after the loop: draw every word of every line at dichotomy.maxFontSize and
\* send the image.  Nothing in the handler throws on a layout result, so the
\* catch block is not reached from here.
Render ==
    /\ pc = "render"
    /\ drawn' = DrawLines(dichotomy.lines, dichotomy.maxFontSize)
    /\ response' = "image/png"
    /\ pc' = "done"
    /\ UNCHANGED <<text, measure, maxFontSize, dichotomy, pass, first>>
    /\ UNCHANGED <<wrapVars, fontVars, drawVars>>

Next == ImageStart \/ IterBegin \/ WrapBreak \/ WrapEmitRest \/ IterEnd \/ Render

Spec == Init /\ [][Next]_vars

-----------------------------------------------------------------------------
(* Properties of the /image handler, checked under Spec *)

\* C1: the layout computation terminates.  The wrap loop's whole control
\* state is (line, maxLineLength), so it finishes exactly when every
\* iteration of the loop shortens `line`.
C1_LayoutTerminates ==
    [][(pc = "wrap" /\ pc' = "wrap" /\ segs' = segs /\ lines' # lines)
          => Len(line') < Len(line)]_vars

\* C3: the pair {lines, fontSizePx} left when the wrap-width search ends fits
\* the canvas whenever fontSizePx > 0, be it the seed or an adopted candidate.
C3_ResultFits ==
    (pc \in {"render", "done"} /\ dichotomy.maxFontSize > 0)
        => ~Overflows(Join(dichotomy.lines, NL), dichotomy.maxFontSize)

\* C8: a font size of 0 for the chosen layout ends the request in an error
\* response; no word is drawn and no image is sent.
C8_ZeroSizeIsFailure ==
    (pc = "done" /\ dichotomy.maxFontSize = 0)
        => (response = "error" /\ drawn = <<>>)

\* C9: a call of the wrapper with maxLineLength <= 0 is rejected before any
\* line is emitted.
C9_NonPositiveWidthRejected ==
    (pc \in {"wrap", "wrapped"} /\ wL <= 0) => lines = <<>>

-----------------------------------------------------------------------------
(* SpecDraw: drawWord(context, word, x0, y, maxFontSize) *)

InitDraw ==
    /\ word \in Words
    /\ x0 \in 0..MaxX
    /\ measure \in Providers
    /\ maxFontSize \in 1..MaxFontCap
    /\ draws = <<>>
    /\ advance = 0
    /\ pc = "call"
    /\ text = <<>>
    /\ dichotomy = IdleDichotomy
    /\ pass = 0
    /\ first = <<>>
    /\ response = "none"
    /\ drawn = <<>>
    /\ InitIdleWrap
    /\ InitIdleFont

DrawWordCall ==
    /\ pc = "call"
    /\ LET d == drawWord(word, x0, maxFontSize)
       IN  /\ draws' = d.draws
           /\ advance' = d.advance
    /\ pc' = "done"
    /\ UNCHANGED <<text, measure, maxFontSize, dichotomy, pass, first, response, drawn>>
    /\ UNCHANGED <<word, x0, wrapVars, fontVars>>

NextDraw == DrawWordCall

SpecDraw == InitDraw /\ [][NextDraw]_vars

\* C7: for a word p of length >= 1 not ending in '!', drawWord(p + '!', x, y)
\* draws p at x, then '!' at x plus the measured width of p, and returns the
\* measured width of p + '! '.
C7_ExclamationSplit ==
    LET p == Substring(word, 0, Len(word) - 1)
    IN  (pc = "done" /\ Len(word) >= 2 /\ word[Len(word)] = BANG /\ p[Len(p)] # BANG)
          => /\ draws = <<[text |-> p, x |-> x0],
                          [text |-> <<BANG>>, x |-> x0 + TextWidth(p, maxFontSize)]>>
             /\ advance = TextWidth(p \o <<BANG, SP>>, maxFontSize)

====
